---- MODULE Spec2Model ----
(***************************************************************************)
(* Terrain altimeter map (guido.vc): the WebGL host script and the         *)
(* fragment shader's pure functions.                                       *)
(*                                                                         *)
(* Fixed-point units used throughout:                                      *)
(*   animationSpeed, terrainScale, terrainMode selector : tenths           *)
(*   contourSpacing, lineThickness, elevation           : thousandths      *)
(*   elevationGradient                                  : hundredths       *)
(*   clock                                              : ticks of Date.now*)
(*   time uniform                                       : ticks * tenths   *)
(*                                                                         *)
(* The page glue (init(narrow) and the window resize handler that calls    *)
(* it) is modelled beside them, with the page width in pixels.             *)
(***************************************************************************)
EXTENDS Integers, Sequences, FiniteSets, TLC

VARIABLES
  pc,            \* "init" | "running" | "stopped" | "threw" : state of the script
  caps,          \* what the browser offers: [context, derivatives]
  debugParam,    \* window.location.search has the 'debug' parameter
  log,           \* set of console.error / console.log messages written
  compiled,      \* shader kinds handed to gl.compileShader
  program,       \* "none" | "linked" | "null" : result of createProgram
  resizeListener,\* window 'resize' listener registered
  window,        \* [innerWidth, innerHeight]
  canvas,        \* [width, height]
  viewport,      \* last gl.viewport(0, 0, w, h), or <<>> when never set
  scriptAdded,   \* dat.GUI <script> appended to document.head
  scriptLoaded,  \* the script's onload has run: new dat.GUI() was created
  config,        \* the configuration object
  now,           \* Date.now()
  startTime,     \* const startTime
  uniforms,      \* arguments of the uniform calls of the last render
  frames,        \* number of gl.drawArrays calls submitted
  rafCalls,      \* number of requestAnimationFrame calls made
  rafPending,    \* animation-frame requests outstanding
  lastRender,    \* gl / scheduling calls of the last render, in order
  generator,     \* generator getElevation routes the last frame to
  edits,         \* number of writes the panel's controllers have made
  surface,       \* "shown" | "hidden" | "destroyed" : the host surface
  hashSeed,      \* selects the lattice hash table
  call,          \* last shader function evaluated: name, arguments, result
  ready,         \* the DOM-ready callback of the page glue has run
  pageWidth,     \* $(window).width()
  narrow,        \* the global narrow (FALSE while still undefined)
  initialised,   \* window.initialised (FALSE while still undefined)
  wide_initialised, \* window.wide_initialised (FALSE while still undefined)
  delayedInit,   \* window.delayedInit: id of the last timer set, 0 while undefined
  timers,        \* ids of the timers set and neither fired nor cleared
  timersSet,     \* number of setTimeout calls made so far
  highlights,    \* number of #highlight elements in the document
  highlightShown,\* the delayed callback has faded an existing #highlight in
  hoverBindings, \* times the hover / focus handlers were bound to the menu links
  setups,        \* times the one-time setup (fitText, panelSnap) has run
  fired          \* number of delayed callbacks that have run

hostVars == <<pc, caps, debugParam, log, compiled, program, resizeListener, window,
              canvas, viewport, scriptAdded, scriptLoaded, config, now,
              startTime, uniforms, frames, rafCalls, rafPending, lastRender,
              generator, edits, surface>>
shaderVars == <<hashSeed, call>>
glueVars == <<ready, pageWidth, narrow, initialised, wide_initialised, delayedInit,
              timers, timersSet, highlights, highlightShown, hoverBindings,
              setups, fired>>
vars == <<hostVars, shaderVars, glueVars>>

----------------------------------------------------------------------------
(* Bounds of the model *)
MaxFrames == 3
MaxClock == 2
MaxOffset == 1
MaxDim == 2
MaxEdits == 1
MaxSeed == 2
MaxCoord == 1
MaxElevation == 12
PosDen == 4
HashDen == 8
MaxOctaves == 10
MaxTimers == 4
WidthSpread == 2

Dims == 1..MaxDim
(* Window sizes: every width with the complementary height. *)
Sizes == {[innerWidth |-> w, innerHeight |-> MaxDim + 1 - w] : w \in Dims}

----------------------------------------------------------------------------
(* CONFIGURATION *)

InitialConfig ==
  [terrainMode |-> "abstract",
   contourSpacing |-> 50,
   animationSpeed |-> 10,
   terrainScale |-> 5,
   lineThickness |-> 1]

(* Values the dat.GUI controllers can write: the option list of            *)
(* terrainMode, and the two ends of each slider (animationSpeed also 1.0). *)
TerrainModes == {"mountains", "hills", "abstract"}
SpacingValues == {50, 500}
SpeedValues == {0, 10, 30}
ScaleValues == {5, 100}
ThicknessValues == {1, 200}

NoUniforms == <<>>
NoViewport == <<>>
NoCall == [fn |-> "none"]

----------------------------------------------------------------------------
(* Exact rational arithmetic for the shader's float expressions.  A value  *)
(* is a record [n, d] in lowest terms with d > 0.                          *)

RECURSIVE GCD(_, _)
GCD(a, b) == IF b = 0 THEN a ELSE GCD(b, a % b)

Abs(i) == IF i < 0 THEN -i ELSE i

Rat(n, d) ==
  LET g == GCD(Abs(n), Abs(d))
      sgn == IF d < 0 THEN -1 ELSE 1
  IN  [n |-> sgn * (n \div g), d |-> sgn * (d \div g)]

Whole(i) == [n |-> i, d |-> 1]
Add(x, y) ==
  LET g == GCD(x.d, y.d)
  IN  Rat(x.n * (y.d \div g) + y.n * (x.d \div g), (x.d \div g) * y.d)
Neg(x) == [n |-> -x.n, d |-> x.d]
Sub(x, y) == Add(x, Neg(y))
Mul(x, y) ==
  LET a == Rat(x.n, y.d)
      b == Rat(y.n, x.d)
  IN  [n |-> a.n * b.n, d |-> a.d * b.d]
Div(x, y) == Mul(x, Rat(y.d, y.n))
Less(x, y) == Sub(x, y).n < 0
Leq(x, y) == Sub(x, y).n <= 0

(* GLSL built-ins *)
floor(x) == Whole(x.n \div x.d)
fract(x) == Sub(x, floor(x))
mod(x, y) == Sub(x, Mul(y, floor(Div(x, y))))
abs(x) == [n |-> Abs(x.n), d |-> x.d]
max(x, y) == IF Less(x, y) THEN y ELSE x
min(x, y) == IF Less(y, x) THEN y ELSE x
clamp(x, lo, hi) == min(max(x, lo), hi)
mix(x, y, a) == Add(Mul(x, Sub(Whole(1), a)), Mul(y, a))
smoothstep(edge0, edge1, x) ==
  LET t == clamp(Div(Sub(x, edge0), Sub(edge1, edge0)), Whole(0), Whole(1))
  IN  Mul(Mul(t, t), Sub(Whole(3), Mul(Whole(2), t)))

----------------------------------------------------------------------------
(* NOISE GENERATION FUNCTIONS *)

(* hash(p) = fract(sin(dot(p, vec2(127.1, 311.7))) * 43758.5453), used on  *)
(* lattice points only.  The dot product is kept (in tenths); sin and the  *)
(* large multiplier have no integer counterpart and are replaced by a      *)
(* family of integer scramblers indexed by hashSeed.  Every member is a    *)
(* deterministic map from lattice points to [0,1) in steps of 1/HashDen.   *)
hash(p) ==
  LET dot == 1271 * p[1].n + 3117 * p[2].n
      a == (dot + hashSeed) % 9973
      b == (dot * (hashSeed + 3) + 17) % 9973
  IN  Rat((a * b + a + hashSeed) % HashDen, HashDen)

(* noise interpolating with the position itself instead of its fraction. *)
noise_NoFract(p) ==
  LET i == <<floor(p[1]), floor(p[2])>>
      f0 == <<p[1], p[2]>>
      f == <<Mul(Mul(f0[1], f0[1]), Sub(Whole(3), Mul(Whole(2), f0[1]))),
             Mul(Mul(f0[2], f0[2]), Sub(Whole(3), Mul(Whole(2), f0[2])))>>
      a == hash(i)
      b == hash(<<Add(i[1], Whole(1)), i[2]>>)
      c == hash(<<i[1], Add(i[2], Whole(1))>>)
      d == hash(<<Add(i[1], Whole(1)), Add(i[2], Whole(1))>>)
  IN  mix(mix(a, b, f[1]), mix(c, d, f[1]), f[2])

(* The interpolation curve with the sign of its cubic term turned. *)
hermite_PlusCubic(f) == Mul(Mul(f, f), Add(Whole(3), Mul(Whole(2), f)))

(* f * f * (3.0 - 2.0 * f), one component of the smooth interpolation curve. *)
hermite(f) == Mul(Mul(f, f), Sub(Whole(3), Mul(Whole(2), f)))

(* noise(p): value noise, hermite-smoothed bilinear interpolation. *)
noise(p) ==
  LET i == <<floor(p[1]), floor(p[2])>>
      f0 == <<fract(p[1]), fract(p[2])>>
      f == <<hermite(f0[1]), hermite(f0[2])>>
      a == hash(i)
      b == hash(<<Add(i[1], Whole(1)), i[2]>>)
      c == hash(<<i[1], Add(i[2], Whole(1))>>)
      d == hash(<<Add(i[1], Whole(1)), Add(i[2], Whole(1))>>)
  IN  mix(mix(a, b, f[1]), mix(c, d, f[1]), f[2])

(* The octave loop without its fixed limit of eight passes. *)
RECURSIVE fbmLoop_NoLimit(_, _, _, _, _, _)
fbmLoop_NoLimit(p, octaves, i, value, amplitude, frequency) ==
  IF i >= octaves THEN value
  ELSE fbmLoop_NoLimit(p, octaves, i + 1,
         Add(value, Mul(amplitude,
                        noise(<<Mul(p[1], frequency), Mul(p[2], frequency)>>))),
         Mul(amplitude, Rat(1, 2)),
         Mul(frequency, Whole(2)))

(* for(int i = 0; i < 8; i++) { if (i >= octaves) break; ... }: the state  *)
(* of the loop before pass i, and the value it ends with.                  *)
RECURSIVE fbmLoop(_, _, _, _, _, _)
fbmLoop(p, octaves, i, value, amplitude, frequency) ==
  IF ~(i < 8) THEN value
  ELSE IF i >= octaves THEN value
  ELSE fbmLoop(p, octaves, i + 1,
         Add(value, Mul(amplitude,
                        noise(<<Mul(p[1], frequency), Mul(p[2], frequency)>>))),
         Mul(amplitude, Rat(1, 2)),
         Mul(frequency, Whole(2)))

fbm_NoLimit(p, octaves) ==
  fbmLoop_NoLimit(p, octaves, 0, Whole(0), Rat(1, 2), Whole(1))

(* fbm(p, octaves): layered noise, value 0.0, amplitude 0.5, frequency 1.0 *)
(* at the start.                                                           *)
fbm(p, octaves) == fbmLoop(p, octaves, 0, Whole(0), Rat(1, 2), Whole(1))

----------------------------------------------------------------------------
(* CONTOUR LINE RENDERING *)

(* abs(contourValue - spacing * 0.5), contourValue = mod(elevation, spacing). *)
distanceToLine(elevation, spacing) ==
  LET contourValue == mod(elevation, spacing)
  IN  abs(Sub(contourValue, Mul(spacing, Rat(1, 2))))

(* The thickness floored at a tenth of the epsilon of the code. *)
adaptiveThickness_SmallerEpsilon(thickness, elevationGradient) ==
  Mul(thickness, max(elevationGradient, Rat(1, 1000)))

(* thickness * max(elevationGradient, 0.01) *)
adaptiveThickness(thickness, elevationGradient) ==
  Mul(thickness, max(elevationGradient, Rat(1, 100)))

(* renderContour returning the smoothstep itself, not one minus it. *)
renderContour_NotInverted(elevation, elevationGradient, spacing, thickness) ==
  smoothstep(Mul(adaptiveThickness(thickness, elevationGradient), Rat(1, 2)),
             Mul(adaptiveThickness(thickness, elevationGradient), Rat(3, 2)),
             distanceToLine(elevation, spacing))

renderContour(elevation, elevationGradient, spacing, thickness) ==
  LET lineIntensity ==
        Sub(Whole(1),
            smoothstep(Mul(adaptiveThickness(thickness, elevationGradient), Rat(1, 2)),
                       Mul(adaptiveThickness(thickness, elevationGradient), Rat(3, 2)),
                       distanceToLine(elevation, spacing)))
  IN  lineIntensity

----------------------------------------------------------------------------
(* MAIN FRAGMENT SHADER *)

(* main's coordinates without the aspect ratio correction. *)
terrainPos_NoAspect(gl_FragCoord, resolution, terrainScale) ==
  LET uv0 == <<Div(gl_FragCoord[1], Whole(resolution[1])),
               Div(gl_FragCoord[2], Whole(resolution[2]))>>
      uv1 == <<Sub(uv0[1], Rat(1, 2)), Sub(uv0[2], Rat(1, 2))>>
  IN  <<Mul(uv1[1], terrainScale), Mul(uv1[2], terrainScale)>>

(* The first part of main: from the pixel to its terrain position.         *)
(*   uv = gl_FragCoord.xy / resolution;  uv = uv - 0.5;                    *)
(*   aspectRatio = vec2(resolution.x / resolution.y, 1.0);                 *)
(*   uv = uv * aspectRatio;  terrainPos = uv * terrainScale;               *)
terrainPos(gl_FragCoord, resolution, terrainScale) ==
  LET uv0 == <<Div(gl_FragCoord[1], Whole(resolution[1])),
               Div(gl_FragCoord[2], Whole(resolution[2]))>>
      uv1 == <<Sub(uv0[1], Rat(1, 2)), Sub(uv0[2], Rat(1, 2))>>
      aspectRatio == <<Div(Whole(resolution[1]), Whole(resolution[2])), Whole(1)>>
      uv == <<Mul(uv1[1], aspectRatio[1]), Mul(uv1[2], aspectRatio[2])>>
  IN  <<Mul(uv[1], terrainScale), Mul(uv[2], terrainScale)>>

----------------------------------------------------------------------------
(* WEBGL INITIALIZATION and SHADER COMPILATION *)

ErrNoWebGL == "WebGL not supported"
ErrNoDerivatives == "OES_standard_derivatives extension not supported"
ErrCompile == "Shader compilation error"
ErrLink == "Program linking error"
MsgDebugUI == "Debug UI loaded"

(* createShader: the compiled shader, or null after logging the info log. *)
createShader(compileStatus) == IF compileStatus THEN "shader" ELSE "null"

createShaderLog(compileStatus) == IF compileStatus THEN {} ELSE {ErrCompile}

(* createProgram.  gl.attachShader is handed whatever createShader         *)
(* returned.  With a null shader the binding either throws a TypeError     *)
(* (non-nullable argument) or records INVALID_VALUE and goes on, and the   *)
(* program then fails to link.                                             *)
createProgram(vs, fs, linkStatus, nullThrows) ==
  IF vs = "null" \/ fs = "null"
    THEN IF nullThrows THEN "threw" ELSE "null"
    ELSE IF linkStatus THEN "linked" ELSE "null"

createProgramLog(prog) == IF prog = "null" THEN {ErrLink} ELSE {}

(* gl.getAttribLocation / gl.getUniformLocation on the value createProgram *)
(* returned: a null program throws a TypeError or yields -1 / null.        *)
getLocations(prog, nullThrows) ==
  IF prog = "null" /\ nullThrows THEN "threw" ELSE "ok"

(* StartupOutcome without the return that follows the missing extension. *)
StartupOutcome_NoExtensionReturn(glOk, extOk, vsOk, fsOk, linkOk, nullThrows) ==
  IF ~glOk THEN "noWebGL"
  ELSE LET prog == createProgram(createShader(vsOk), createShader(fsOk),
                                 linkOk, nullThrows)
       IN  IF prog = "threw" THEN "threwAtAttach"
           ELSE IF getLocations(prog, nullThrows) = "threw"
                  THEN "threwAtLocations"
                  ELSE "proceed"

(* The script's path up to the first statement after the locations:        *)
(* which return or exception, if any, ends it.                             *)
StartupOutcome(glOk, extOk, vsOk, fsOk, linkOk, nullThrows) ==
  IF ~glOk THEN "noWebGL"
  ELSE IF ~extOk THEN "noDerivatives"
  ELSE LET prog == createProgram(createShader(vsOk), createShader(fsOk),
                                 linkOk, nullThrows)
       IN  IF prog = "threw" THEN "threwAtAttach"
           ELSE IF getLocations(prog, nullThrows) = "threw"
                  THEN "threwAtLocations"
                  ELSE "proceed"

----------------------------------------------------------------------------
(* CANVAS RESIZE HANDLING *)

(* resize(): canvas takes the window's inner size, viewport follows. *)
resizeCanvas(win) == [width |-> win.innerWidth, height |-> win.innerHeight]

resizeViewport(cv) == <<0, 0, cv.width, cv.height>>

----------------------------------------------------------------------------
(* DEBUG UI *)

(* urlParams.has('debug') *)
HasDebug == debugParam

(* initDebugUI without the early return. *)
initDebugUI_NoOptIn == TRUE

(* initDebugUI: whether the dat.GUI script element is appended. *)
initDebugUI == IF ~HasDebug THEN FALSE ELSE TRUE

----------------------------------------------------------------------------
(* ANIMATION LOOP *)

(* (Date.now() - startTime) * 0.001 * config.animationSpeed *)
elapsedTime(clock, start, speed) == (clock - start) * speed

(* terrainModeValue with the two last branches exchanged. *)
terrainModeValue_Exchanged(mode) ==
  IF mode = "mountains" THEN 0 ELSE IF mode = "hills" THEN 20 ELSE 10

(* config.terrainMode === 'mountains' ? 0.0 :                              *)
(* config.terrainMode === 'hills' ? 1.0 : 2.0     (tenths)                 *)
terrainModeValue(mode) ==
  IF mode = "mountains" THEN 0 ELSE IF mode = "hills" THEN 10 ELSE 20

(* getElevation: the generator the terrainMode uniform selects. *)
getElevation(terrainMode) ==
  IF terrainMode < 5 THEN "mountains"
  ELSE IF terrainMode < 15 THEN "hills"
  ELSE "abstract"

(* renderUniforms passing height and width in the wrong order. *)
renderUniforms_SwappedResolution(cv, cfg, clock, start) ==
  [time |-> elapsedTime(clock, start, cfg.animationSpeed),
   resolution |-> <<cv.height, cv.width>>,
   terrainMode |-> terrainModeValue(cfg.terrainMode),
   contourSpacing |-> cfg.contourSpacing,
   terrainScale |-> cfg.terrainScale,
   lineThickness |-> cfg.lineThickness]

(* The uniform calls of one render. *)
renderUniforms(cv, cfg, clock, start) ==
  [time |-> elapsedTime(clock, start, cfg.animationSpeed),
   resolution |-> <<cv.width, cv.height>>,
   terrainMode |-> terrainModeValue(cfg.terrainMode),
   contourSpacing |-> cfg.contourSpacing,
   terrainScale |-> cfg.terrainScale,
   lineThickness |-> cfg.lineThickness]

(* renderCalls with the next frame requested before and after the draw. *)
renderCalls_TwoRequests ==
  <<"useProgram", "requestAnimationFrame", "uniform1f(time)",
    "uniform2f(resolution)", "uniform1f(terrainMode)",
    "uniform1f(contourSpacing)", "uniform1f(terrainScale)",
    "uniform1f(lineThickness)", "enableVertexAttribArray", "bindBuffer",
    "vertexAttribPointer", "drawArrays", "requestAnimationFrame">>

(* The calls render makes, in program order. *)
renderCalls ==
  <<"useProgram", "uniform1f(time)", "uniform2f(resolution)",
    "uniform1f(terrainMode)", "uniform1f(contourSpacing)",
    "uniform1f(terrainScale)", "uniform1f(lineThickness)",
    "enableVertexAttribArray", "bindBuffer", "vertexAttribPointer",
    "drawArrays", "requestAnimationFrame">>

CountCalls(calls, name) ==
  Cardinality({i \in DOMAIN calls : calls[i] = name})

(* render(), run with canvas cv and start time start, when `pending`       *)
(* animation-frame requests are outstanding on entry.                      *)
render(cv, start, pending) ==
  /\ uniforms' = renderUniforms(cv, config, now, start)
  /\ generator' = getElevation(renderUniforms(cv, config, now, start).terrainMode)
  /\ lastRender' = renderCalls
  /\ frames' = frames + CountCalls(renderCalls, "drawArrays")
  /\ rafCalls' = rafCalls + CountCalls(renderCalls, "requestAnimationFrame")
  /\ rafPending' = pending + CountCalls(renderCalls, "requestAnimationFrame")

----------------------------------------------------------------------------
(* The state before the script runs. *)
HostInit ==
  /\ pc = "init"
  /\ caps \in [context : BOOLEAN, derivatives : BOOLEAN]
  /\ debugParam \in BOOLEAN
  /\ log = {}
  /\ compiled = {}
  /\ program = "none"
  /\ resizeListener = FALSE
  /\ window \in Sizes
  /\ canvas \in {resizeCanvas(sz) : sz \in Sizes}
  /\ viewport = NoViewport
  /\ scriptAdded = FALSE
  /\ scriptLoaded = FALSE
  /\ config = InitialConfig
  /\ now = 0
  /\ startTime = 0
  /\ uniforms = NoUniforms
  /\ frames = 0
  /\ rafCalls = 0
  /\ rafPending = 0
  /\ lastRender = <<>>
  /\ generator = "none"
  /\ edits = 0
  /\ surface = "shown"

ShaderIdle ==
  /\ hashSeed = 0
  /\ call = NoCall

(* The width below which the page is narrow: $(this).width() < 750. *)
Threshold == 750
Widths == (Threshold - WidthSpread)..(Threshold + WidthSpread - 1)

(* The page glue before its DOM-ready callback: no global written yet, no  *)
(* timer set, no #highlight in the document.                               *)
GlueStart ==
  /\ ready = FALSE
  /\ narrow = FALSE
  /\ initialised = FALSE
  /\ wide_initialised = FALSE
  /\ delayedInit = 0
  /\ timers = {}
  /\ timersSet = 0
  /\ highlights = 0
  /\ highlightShown = FALSE
  /\ hoverBindings = 0
  /\ setups = 0
  /\ fired = 0

GlueIdle == GlueStart /\ pageWidth = Threshold

Init == HostInit /\ ShaderIdle /\ GlueIdle

(* The script body, from the first statement to the first render() call.  *)
(* vsOk, fsOk, linkOk are the compile and link statuses the WebGL          *)
(* implementation answers, nullThrows how its binding treats a null object *)
(* argument, offset is Math.random() * 100000.                             *)
Main ==
  /\ pc = "init"
  /\ \E vsOk, fsOk, linkOk, nullThrows \in BOOLEAN, offset \in 0..MaxOffset :
       LET outcome == StartupOutcome(caps.context, caps.derivatives,
                                     vsOk, fsOk, linkOk, nullThrows)
           prog == createProgram(createShader(vsOk), createShader(fsOk),
                                 linkOk, nullThrows)
           shaderLog == createShaderLog(vsOk) \cup createShaderLog(fsOk)
       IN  CASE outcome = "noWebGL" ->
                  /\ pc' = "stopped"
                  /\ log' = log \cup {ErrNoWebGL}
                  /\ UNCHANGED <<compiled, program, resizeListener, canvas,
                                 viewport, scriptAdded, startTime, uniforms,
                                 frames, rafCalls, rafPending, lastRender,
                                 generator>>
             [] outcome = "noDerivatives" ->
                  /\ pc' = "stopped"
                  /\ log' = log \cup {ErrNoDerivatives}
                  /\ UNCHANGED <<compiled, program, resizeListener, canvas,
                                 viewport, scriptAdded, startTime, uniforms,
                                 frames, rafCalls, rafPending, lastRender,
                                 generator>>
             [] outcome = "threwAtAttach" ->
                  /\ pc' = "threw"
                  /\ log' = log \cup shaderLog
                  /\ compiled' = {"VERTEX_SHADER", "FRAGMENT_SHADER"}
                  /\ UNCHANGED <<program, resizeListener, canvas,
                                 viewport, scriptAdded, startTime, uniforms,
                                 frames, rafCalls, rafPending, lastRender,
                                 generator>>
             [] outcome = "threwAtLocations" ->
                  /\ pc' = "threw"
                  /\ log' = log \cup shaderLog \cup createProgramLog(prog)
                  /\ compiled' = {"VERTEX_SHADER", "FRAGMENT_SHADER"}
                  /\ program' = prog
                  /\ UNCHANGED <<resizeListener, canvas,
                                 viewport, scriptAdded, startTime, uniforms,
                                 frames, rafCalls, rafPending, lastRender,
                                 generator>>
             [] outcome = "proceed" ->
                  /\ pc' = "running"
                  /\ log' = log \cup shaderLog \cup createProgramLog(prog)
                  /\ compiled' = {"VERTEX_SHADER", "FRAGMENT_SHADER"}
                  /\ program' = prog
                  /\ resizeListener' = TRUE
                  /\ canvas' = resizeCanvas(window)
                  /\ viewport' = resizeViewport(resizeCanvas(window))
                  /\ scriptAdded' = initDebugUI
                  /\ startTime' = now - offset
                  /\ render(resizeCanvas(window), now - offset, rafPending)
  /\ UNCHANGED <<caps, debugParam, window, scriptLoaded, config, now,
                 edits, surface>>
  /\ UNCHANGED <<shaderVars, glueVars>>

(* The browser resizes the window and dispatches 'resize'. *)
WindowResize ==
  /\ \E sz \in Sizes :
       /\ sz # window
       /\ window' = sz
       /\ IF resizeListener
            THEN /\ canvas' = resizeCanvas(sz)
                 /\ viewport' = resizeViewport(resizeCanvas(sz))
            ELSE UNCHANGED <<canvas, viewport>>
  /\ UNCHANGED <<pc, caps, debugParam, log, compiled, program, resizeListener,
                 scriptAdded, scriptLoaded, config, now, startTime, uniforms,
                 frames, rafCalls, rafPending, lastRender, generator, edits,
                 surface>>
  /\ UNCHANGED <<shaderVars, glueVars>>

(* script.onload: new dat.GUI() and its five controllers. *)
ScriptOnload ==
  /\ scriptAdded
  /\ ~scriptLoaded
  /\ scriptLoaded' = TRUE
  /\ log' = log \cup {MsgDebugUI}
  /\ UNCHANGED <<pc, caps, debugParam, compiled, program, resizeListener, window,
                 canvas, viewport, scriptAdded, config, now, startTime,
                 uniforms, frames, rafCalls, rafPending, lastRender,
                 generator, edits, surface>>
  /\ UNCHANGED <<shaderVars, glueVars>>

(* A controller of the panel writes one property of config. *)
GuiEdit ==
  /\ scriptLoaded
  /\ edits < MaxEdits
  /\ \/ \E v \in TerrainModes : config' = [config EXCEPT !.terrainMode = v]
     \/ \E v \in SpacingValues : config' = [config EXCEPT !.contourSpacing = v]
     \/ \E v \in SpeedValues : config' = [config EXCEPT !.animationSpeed = v]
     \/ \E v \in ScaleValues : config' = [config EXCEPT !.terrainScale = v]
     \/ \E v \in ThicknessValues : config' = [config EXCEPT !.lineThickness = v]
  /\ config' # config
  /\ edits' = edits + 1
  /\ UNCHANGED <<pc, caps, debugParam, log, compiled, program, resizeListener,
                 window, canvas, viewport, scriptAdded, scriptLoaded, now,
                 startTime, uniforms, frames, rafCalls, rafPending,
                 lastRender, generator, surface>>
  /\ UNCHANGED <<shaderVars, glueVars>>

(* The browser runs the animation-frame callback: render().  It holds     *)
(* callbacks back while the document is hidden.                           *)
AnimationFrame ==
  /\ rafPending > 0
  /\ surface # "hidden"
  /\ frames < MaxFrames
  /\ render(canvas, startTime, rafPending - 1)
  /\ UNCHANGED <<pc, caps, debugParam, log, compiled, program, resizeListener,
                 window, canvas, viewport, scriptAdded, scriptLoaded, config,
                 now, startTime, edits, surface>>
  /\ UNCHANGED <<shaderVars, glueVars>>

(* Date.now() advances. *)
Tick ==
  /\ pc = "running"
  /\ now < MaxClock
  /\ now' = now + 1
  /\ UNCHANGED <<pc, caps, debugParam, log, compiled, program, resizeListener,
                 window, canvas, viewport, scriptAdded, scriptLoaded, config,
                 startTime, uniforms, frames, rafCalls, rafPending,
                 lastRender, generator, edits, surface>>
  /\ UNCHANGED <<shaderVars, glueVars>>

(* The host surface stops being displayed.  "hidden": the document is     *)
(* hidden (tab in the background, window minimised) and the browser holds  *)
(* animation-frame callbacks back until it is shown again.  "destroyed":   *)
(* the canvas element is removed from the document, which stays visible,   *)
(* so callbacks keep being delivered.  The script listens to neither.      *)
SurfaceChange ==
  /\ pc = "running"
  /\ surface # "destroyed"
  /\ surface' \in {"shown", "hidden", "destroyed"} \ {surface}
  /\ UNCHANGED <<pc, caps, debugParam, log, compiled, program, resizeListener,
                 window, canvas, viewport, scriptAdded, scriptLoaded, config,
                 now, startTime, uniforms, frames, rafCalls, rafPending,
                 lastRender, generator, edits>>
  /\ UNCHANGED <<shaderVars, glueVars>>

Next ==
  \/ Main
  \/ WindowResize
  \/ ScriptOnload
  \/ GuiEdit
  \/ AnimationFrame
  \/ Tick
  \/ SurfaceChange

Spec == Init /\ [][Next]_vars

----------------------------------------------------------------------------
(* The shader's functions on their own: each action evaluates one of them  *)
(* on arguments drawn from the sets below and records the call.            *)

Seeds == 0..MaxSeed
Coords == {Rat(k, PosDen) : k \in (-PosDen)..(MaxCoord * PosDen + PosDen - 1)}
Positions == Coords \X Coords
Elevations == {Rat(25 * k, 1000) : k \in 0..MaxElevation}
Gradients == {Rat(g, 100) : g \in {0, 1, 50, 100, 200}}
Spacings == {Rat(s, 1000) : s \in SpacingValues \cup {100}}
Thicknesses == {Rat(t, 1000) : t \in ThicknessValues \cup {2, 50}}
Selectors == (-5)..30
Octaves == 1..MaxOctaves
ViewportSizes ==
  {[innerWidth |-> w, innerHeight |-> h] : w \in {2, 3, 600, 800, 1600},
                                           h \in {2, 3, 600, 800}}
(* Pixels sampled along a side of n pixels, each with a next pixel beside   *)
(* it: the first, the middle one and the last but one.                     *)
PixelSamples(n) == {0, (n - 1) \div 2, n - 2}
(* gl_FragCoord of pixel (i, j): the centre of the pixel. *)
FragCoord(i, j) == <<Rat(2 * i + 1, 2), Rat(2 * j + 1, 2)>>
(* The uniforms render hands to the shader once the window has size win    *)
(* and the terrainScale setting is sc.                                     *)
UniformsAfterResize(win, sc) ==
  renderUniforms(resizeCanvas(win), [InitialConfig EXCEPT !.terrainScale = sc], 0, 0)

HostIdle ==
  /\ HostInit
  /\ caps = [context |-> TRUE, derivatives |-> TRUE]
  /\ debugParam = FALSE
  /\ window = [innerWidth |-> 1, innerHeight |-> MaxDim]
  /\ canvas = resizeCanvas(window)

ShaderInit ==
  /\ HostIdle
  /\ hashSeed \in Seeds
  /\ call = NoCall
  /\ GlueIdle

EvalHash ==
  /\ call = NoCall
  /\ \E p \in {q \in Positions : q[1].d = 1 /\ q[2].d = 1} :
       call' = [fn |-> "hash", p |-> p, result |-> hash(p)]
  /\ UNCHANGED <<hostVars, hashSeed, glueVars>>

EvalNoise ==
  /\ call = NoCall
  /\ \E p \in Positions :
       call' = [fn |-> "noise", p |-> p, result |-> noise(p)]
  /\ UNCHANGED <<hostVars, hashSeed, glueVars>>

EvalGetElevation ==
  /\ call = NoCall
  /\ \E sel \in Selectors :
       call' = [fn |-> "getElevation", terrainMode |-> sel,
                result |-> getElevation(sel)]
  /\ UNCHANGED <<hostVars, hashSeed, glueVars>>

EvalRenderContour ==
  /\ call = NoCall
  /\ \E e \in Elevations, g \in Gradients, sp \in Spacings, th \in Thicknesses :
       call' = [fn |-> "renderContour", elevation |-> e,
                elevationGradient |-> g, spacing |-> sp, thickness |-> th,
                result |-> renderContour(e, g, sp, th)]
  /\ UNCHANGED <<hostVars, hashSeed, glueVars>>

(* Two pixels of one frame: the same spacing, thickness and gradient, two  *)
(* elevations of one spacing interval.                                     *)
EvalRenderContourTwice ==
  /\ call = NoCall
  /\ \E e1 \in Elevations, e2 \in Elevations, g \in Gradients,
        sp \in Spacings, th \in Thicknesses :
       /\ floor(Div(e1, sp)) = floor(Div(e2, sp))
       /\ call' = [fn |-> "renderContourTwice", elevation |-> e1, elevation2 |-> e2,
                   elevationGradient |-> g, spacing |-> sp, thickness |-> th,
                   result |-> renderContour(e1, g, sp, th),
                   result2 |-> renderContour(e2, g, sp, th)]
  /\ UNCHANGED <<hostVars, hashSeed, glueVars>>

(* main at one pixel of a frame drawn after the window was resized to win, *)
(* with the pixel to its right and the pixel above it.                     *)
EvalMain ==
  /\ call = NoCall
  /\ \E win \in ViewportSizes, sc \in ScaleValues :
       \E i \in PixelSamples(win.innerWidth), j \in PixelSamples(win.innerHeight) :
         LET u == UniformsAfterResize(win, sc)
             pos(a, b) == terrainPos(FragCoord(a, b), u.resolution,
                                     Rat(u.terrainScale, 10))
         IN  call' = [fn |-> "main", window |-> win, terrainScale |-> sc,
                      pixel |-> <<i, j>>,
                      result |-> pos(i, j),
                      resultRight |-> pos(i + 1, j),
                      resultUp |-> pos(i, j + 1)]
  /\ UNCHANGED <<hostVars, hashSeed, glueVars>>

EvalFbm ==
  /\ call = NoCall
  /\ \E p \in Positions, n \in Octaves :
       call' = [fn |-> "fbm", p |-> p, octaves |-> n, result |-> fbm(p, n)]
  /\ UNCHANGED <<hostVars, hashSeed, glueVars>>

(* The evaluation is over: the next one may start. *)
Return ==
  /\ call # NoCall
  /\ call' = NoCall
  /\ UNCHANGED <<hostVars, hashSeed, glueVars>>

ShaderNext ==
  \/ EvalHash
  \/ EvalNoise
  \/ EvalGetElevation
  \/ EvalRenderContour
  \/ EvalRenderContourTwice
  \/ EvalMain
  \/ EvalFbm
  \/ Return

ShaderSpec == ShaderInit /\ [][ShaderNext]_vars

----------------------------------------------------------------------------
(* THE PAGE GLUE: window resize handler and init(narrow) *)

(* clearTimeout that leaves the timer pending. *)
clearTimeout_Ignored(pending, id) == pending

(* clearTimeout(id): the timer with this id, if still pending, is dropped; *)
(* an id that is undefined, fired or cleared already changes nothing.      *)
clearTimeout(pending, id) == pending \ {id}

(* init(narrow).  The step is not taken when it would set more than        *)
(* MaxTimers timers.                                                       *)
init(nrw) ==
  /\ initialised' = TRUE
  /\ setups' = IF ~initialised THEN setups + 1 ELSE setups
  /\ IF nrw /\ wide_initialised
       THEN /\ wide_initialised' = FALSE
            /\ highlights' = 0
            /\ highlightShown' = FALSE
            /\ timers' = clearTimeout(timers, delayedInit)
            /\ UNCHANGED <<delayedInit, timersSet, hoverBindings>>
       ELSE IF ~nrw /\ ~wide_initialised
       THEN /\ timersSet < MaxTimers
            /\ wide_initialised' = TRUE
            /\ highlights' = highlights + 1
            /\ hoverBindings' = hoverBindings + 1
            /\ timersSet' = timersSet + 1
            /\ delayedInit' = timersSet + 1
            /\ timers' = timers \cup {timersSet + 1}
            /\ UNCHANGED highlightShown
       ELSE UNCHANGED <<wide_initialised, highlights, highlightShown, timers,
                        delayedInit, timersSet, hoverBindings>>

(* The resize handler: narrow from the current width, then init(narrow). *)
resizeHandler ==
  /\ narrow' = (pageWidth < Threshold)
  /\ init(pageWidth < Threshold)

(* jQuery(function($) { $(window).resize(handler).resize(); ... }): the    *)
(* handler is registered and triggered once.                               *)
Ready ==
  /\ ~ready
  /\ ready' = TRUE
  /\ resizeHandler
  /\ UNCHANGED <<pageWidth, fired>>
  /\ UNCHANGED <<hostVars, shaderVars>>

(* The user drags the window to another width; the resize event follows   *)
(* as a step of its own.                                                   *)
WidthChange ==
  /\ \E w \in Widths \ {pageWidth} : pageWidth' = w
  /\ UNCHANGED <<ready, narrow, initialised, wide_initialised, delayedInit,
                 timers, timersSet, highlights, highlightShown, hoverBindings,
                 setups, fired>>
  /\ UNCHANGED <<hostVars, shaderVars>>

(* A resize event is delivered to the registered handler. *)
ResizeEvent ==
  /\ ready
  /\ resizeHandler
  /\ UNCHANGED <<ready, pageWidth, fired>>
  /\ UNCHANGED <<hostVars, shaderVars>>

(* A pending timer fires: the delayed callback moves the highlight under   *)
(* the active link and fades it in, if there is one.                       *)
TimerFire ==
  /\ \E id \in timers : timers' = timers \ {id}
  /\ fired' = fired + 1
  /\ highlightShown' = (highlights > 0)
  /\ UNCHANGED <<ready, pageWidth, narrow, initialised, wide_initialised,
                 delayedInit, timersSet, highlights, hoverBindings, setups>>
  /\ UNCHANGED <<hostVars, shaderVars>>

GlueInit ==
  /\ HostIdle
  /\ ShaderIdle
  /\ GlueStart
  /\ pageWidth \in Widths

GlueNext ==
  \/ Ready
  \/ WidthChange
  \/ ResizeEvent
  \/ TimerFire

GlueSpec == GlueInit /\ [][GlueNext]_vars

----------------------------------------------------------------------------
(* Properties *)

OnLine(elevation, spacing) == mod(elevation, spacing) = Whole(0)
AtMidpoint(elevation, spacing) == mod(elevation, spacing) = Mul(spacing, Rat(1, 2))

(* C1: for every positive spacing, thickness and gradient, renderContour   *)
(* returns 1.0 when the elevation is a multiple of the spacing, and about  *)
(* 0 (at most 0.01) when it is midway between two multiples.               *)
C1_OnLineOneMidpointZero ==
  (/\ call.fn = "renderContour"
   /\ Less(Whole(0), call.elevationGradient))
  => /\ OnLine(call.elevation, call.spacing) => call.result = Whole(1)
     /\ AtMidpoint(call.elevation, call.spacing) => Leq(call.result, Rat(1, 100))

(* C2: if a shader fails to compile or the program fails to link, the     *)
(* diagnostic is logged and the frame loop is never entered: render is     *)
(* never called and no animation frame is ever requested.                  *)
C2_BuildFailureNeverRenders ==
  /\ program = "null" => ErrLink \in log
  /\ (ErrCompile \in log \/ ErrLink \in log \/ program = "null")
       => frames = 0 /\ rafCalls = 0 /\ rafPending = 0

(* C3: without a WebGL context or without OES_standard_derivatives the    *)
(* script logs the diagnostic and stops: no shader is compiled, no resize  *)
(* listener is registered, the debug panel is not initialised and no frame *)
(* is ever rendered or requested.                                          *)
C3_MissingCapabilityStops ==
  (pc # "init" /\ (~caps.context \/ ~caps.derivatives))
  => /\ pc = "stopped"
     /\ log = (IF ~caps.context THEN {ErrNoWebGL} ELSE {ErrNoDerivatives})
     /\ compiled = {}
     /\ program = "none"
     /\ ~resizeListener
     /\ viewport = NoViewport
     /\ ~scriptAdded /\ ~scriptLoaded
     /\ frames = 0 /\ rafCalls = 0 /\ rafPending = 0
     /\ uniforms = NoUniforms

(* C3 witness: the extension was missing, the script has stopped and the  *)
(* canvas does not follow the window's size.                               *)
C3_Witness ==
  /\ pc = "stopped"
  /\ caps.context /\ ~caps.derivatives
  /\ ErrNoDerivatives \in log
  /\ canvas # resizeCanvas(window)

(* C4: the time uniform never decreases from one frame to the next,       *)
(* whatever the clock and the panel's animationSpeed controller do         *)
(* between the two frames.  (Stated for sessions whose program linked.)    *)
C4_TimeMonotonic ==
  [][(program = "linked" /\ frames > 0 /\ frames' = frames + 1)
       => uniforms'.time >= uniforms.time]_vars

(* C5: at most one animation-frame request is outstanding; every render   *)
(* submits one draw and then issues exactly one request, as its last call; *)
(* a frame after the first is submitted by the callback of the request the *)
(* frame before it made, under any interleaving with resizes and edits.    *)
C5_FramesNeverOverlap ==
  [][/\ rafPending' <= 1
     /\ rafCalls' = frames'
     /\ frames' # frames =>
          /\ frames' = frames + 1
          /\ rafCalls' = rafCalls + 1
          /\ rafPending' = 1
          /\ frames > 0 => rafPending = 1
          /\ CountCalls(lastRender', "drawArrays") = 1
          /\ CountCalls(lastRender', "requestAnimationFrame") = 1
          /\ lastRender'[Len(lastRender')] = "requestAnimationFrame"
          /\ lastRender'[Len(lastRender') - 1] = "drawArrays"]_vars

(* C5 witness: frames submitted after a panel edit, a resize since the    *)
(* last one, one request outstanding.                                      *)
C5_Witness ==
  /\ frames >= 2
  /\ rafPending = 1
  /\ edits > 0
  /\ uniforms.resolution # <<canvas.width, canvas.height>>

(* C6: once the host surface is hidden or destroyed, the render loop      *)
(* makes no further requestAnimationFrame call.  (Stated for sessions      *)
(* whose program linked.)                                                  *)
C6_NoRequestOnceSurfaceGone ==
  [][(program = "linked" /\ surface # "shown") => rafCalls' = rafCalls]_vars

(* C7: without the 'debug' query parameter the panel is never loaded or   *)
(* initialised (no script element, no GUI object) and the configuration    *)
(* keeps its initial values for the whole session.                         *)
C7_NoOptInNoPanel ==
  ~debugParam =>
     /\ ~scriptAdded
     /\ ~scriptLoaded
     /\ MsgDebugUI \notin log
     /\ edits = 0
     /\ config = InitialConfig

(* C7 witness: a session without the parameter that has rendered frames.  *)
C7_Witness ==
  /\ ~debugParam
  /\ pc = "running"
  /\ frames >= 2

(* The selector the claim assigns to each style, and the band of each     *)
(* selector. *)
StyleSelector == [mountains |-> 0, hills |-> 10, abstract |-> 20]
Band(sel) ==
  {g \in TerrainModes :
     \/ g = "mountains" /\ sel < 5
     \/ g = "hills" /\ 5 <= sel /\ sel < 15
     \/ g = "abstract" /\ 15 <= sel}

(* C8: the dispatcher routes every selector to exactly one generator, the *)
(* one of its band (0.0 mountains, 1.0 hills, 2.0 abstract); every render  *)
(* sends the selector of the configured style, one of 0.0, 1.0, 2.0, and   *)
(* the frame is routed to the configured style's own generator.            *)
C8_StyleReachesItsGenerator ==
  [][frames' # frames =>
          /\ \A sel \in Selectors : Band(sel) = {getElevation(sel)}
          /\ uniforms'.terrainMode = StyleSelector[config.terrainMode]
          /\ uniforms'.terrainMode \in {0, 10, 20}
          /\ getElevation(uniforms'.terrainMode) = config.terrainMode
          /\ generator' = config.terrainMode]_vars

(* C8 witness: frames have been routed to mountains after the panel chose *)
(* that style.                                                             *)
C8_Witness ==
  /\ frames >= 2
  /\ generator = "mountains"
  /\ uniforms.terrainMode = 0
  /\ config.terrainMode = "mountains"

(* C9: render reads but never writes the canvas dimensions and the        *)
(* configuration.  canvas.width and canvas.height change only in resize()  *)
(* (to the window's inner size), the configuration only through the panel, *)
(* and every render passes the current canvas dimensions as resolution.    *)
C9_RenderOnlyReads ==
  [][/\ frames' # frames =>
          /\ config' = config
          /\ pc = "running" => canvas' = canvas
          /\ uniforms'.resolution = <<canvas'.width, canvas'.height>>
     /\ canvas' # canvas =>
          /\ resizeListener'
          /\ window' # window \/ pc = "init"
          /\ canvas' = resizeCanvas(window')
     /\ config' # config =>
          /\ scriptLoaded
          /\ edits' = edits + 1
          /\ frames' = frames]_vars

(* C9 witness: a frame rendered after a resize and a panel edit carries   *)
(* the resized canvas's dimensions.                                        *)
C9_Witness ==
  /\ frames >= 2
  /\ edits > 0
  /\ uniforms.resolution = <<canvas.width, canvas.height>>
  /\ uniforms.contourSpacing # InitialConfig.contourSpacing
  /\ canvas.width # canvas.height

IsLattice(p) == p[1].d = 1 /\ p[2].d = 1

(* C10: at every position with two integer coordinates noise(p) equals    *)
(* hash(p) exactly.                                                        *)
C10_NoiseIsHashOnLattice ==
  (call.fn = "noise" /\ IsLattice(call.p)) => call.result = hash(call.p)

(* C10 witness: noise evaluated at a lattice point away from the origin   *)
(* whose hash is not zero.                                                 *)
C10_Witness ==
  /\ call.fn = "noise"
  /\ IsLattice(call.p)
  /\ call.p[1] # Whole(0) /\ call.p[2] # Whole(0)
  /\ call.result # Whole(0)

(* The four corner hashes of the grid cell holding p, in the order a, b, c, d. *)
Corners(p) ==
  LET i == <<floor(p[1]), floor(p[2])>>
  IN  <<hash(i),
        hash(<<Add(i[1], Whole(1)), i[2]>>),
        hash(<<i[1], Add(i[2], Whole(1))>>),
        hash(<<Add(i[1], Whole(1)), Add(i[2], Whole(1))>>)>>

InUnit(x) == Leq(Whole(0), x) /\ Leq(x, Whole(1))

(* C11: for every sample position the noise output lies in [0,1]: the      *)
(* smoothed offsets stay in [0,1], and the result is the combination of   *)
(* the four corner hashes with weights that are not negative and sum to   *)
(* one, so it lies between the least and the greatest corner.              *)
C11_NoiseInUnitRange ==
  call.fn = "noise" =>
    LET fx == hermite(fract(call.p[1]))
        fy == hermite(fract(call.p[2]))
        k == Corners(call.p)
        w == <<Mul(Sub(Whole(1), fx), Sub(Whole(1), fy)),
               Mul(fx, Sub(Whole(1), fy)),
               Mul(Sub(Whole(1), fx), fy),
               Mul(fx, fy)>>
    IN  /\ InUnit(fx) /\ InUnit(fy)
        /\ \A j \in 1..4 : InUnit(k[j]) /\ Leq(Whole(0), w[j])
        /\ Add(Add(w[1], w[2]), Add(w[3], w[4])) = Whole(1)
        /\ call.result = Add(Add(Mul(w[1], k[1]), Mul(w[2], k[2])),
                             Add(Mul(w[3], k[3]), Mul(w[4], k[4])))
        /\ \E j \in 1..4 : Leq(k[j], call.result)
        /\ \E j \in 1..4 : Leq(call.result, k[j])
        /\ InUnit(call.result)

(* C11 witness: noise sampled strictly inside a cell whose corners differ, *)
(* with a result strictly between 0 and 1.                                 *)
C11_Witness ==
  /\ call.fn = "noise"
  /\ call.p[1].d # 1 /\ call.p[2].d # 1
  /\ \E j \in 2..4 : Corners(call.p)[j] # Corners(call.p)[1]
  /\ Less(Whole(0), call.result) /\ Less(call.result, Whole(1))

RECURSIVE Pow2(_)
Pow2(k) == IF k = 0 THEN 1 ELSE 2 * Pow2(k - 1)

(* The sum over k = 0 .. layers-1 of 0.5^(k+1) * noise(p * 2^k). *)
RECURSIVE OctaveSum(_, _)
OctaveSum(p, layers) ==
  IF layers = 0 THEN Whole(0)
  ELSE LET k == layers - 1
       IN  Add(OctaveSum(p, k),
               Mul(Rat(1, Pow2(k + 1)),
                   noise(<<Mul(p[1], Whole(Pow2(k))), Mul(p[2], Whole(Pow2(k)))>>)))

(* C12: for every position p and octave count n >= 1, fbm(p, n) is the sum *)
(* over k = 0 .. min(n, 8) - 1 of 0.5^(k+1) * noise(p * 2^k); one octave   *)
(* gives 0.5 * noise(p), and a count above 8 gives what 8 gives.           *)
C12_FbmIsCappedOctaveSum ==
  call.fn = "fbm" =>
    /\ call.result = OctaveSum(call.p, IF call.octaves < 8 THEN call.octaves ELSE 8)
    /\ call.octaves = 1 => call.result = Mul(Rat(1, 2), noise(call.p))
    /\ call.octaves > 8 => call.result = fbm(call.p, 8)

(* C12 witness: fbm asked for more than 8 octaves at a position off the    *)
(* lattice, where the eighth layer contributes and a ninth would too.     *)
C12_Witness ==
  /\ call.fn = "fbm"
  /\ call.octaves > 8
  /\ ~IsLattice(call.p)
  /\ call.result # fbm(call.p, 7)
  /\ noise(<<Mul(call.p[1], Whole(Pow2(8))), Mul(call.p[2], Whole(Pow2(8)))>>) # Whole(0)

(* C13: for a fixed gradient and thickness, of two elevations in the same  *)
(* spacing interval the one with the larger distanceToLine never gets the  *)
(* higher intensity: the output does not increase with that distance.      *)
C13_IntensityFallsWithDistance ==
  call.fn = "renderContourTwice" =>
    (Leq(distanceToLine(call.elevation, call.spacing),
         distanceToLine(call.elevation2, call.spacing))
     => Leq(call.result2, call.result))

(* C13 witness: two elevations of one interval at different distances,     *)
(* both on the soft edge of the line, the farther one strictly darker.     *)
C13_Witness ==
  /\ call.fn = "renderContourTwice"
  /\ Less(distanceToLine(call.elevation, call.spacing),
          distanceToLine(call.elevation2, call.spacing))
  /\ Less(call.result, Whole(1))
  /\ Less(Whole(0), call.result2)
  /\ Less(call.result2, call.result)

(* C14: for every elevation, every gradient >= 0 (0 included), every       *)
(* positive spacing and thickness, renderContour returns an intensity in  *)
(* [0,1], and the adaptive thickness it uses is never zero: it is at      *)
(* least 0.01 times the base thickness.                                    *)
C14_IntensityInUnitRange ==
  (/\ call.fn = "renderContour"
   /\ Leq(Whole(0), call.elevationGradient)
   /\ Less(Whole(0), call.spacing)
   /\ Less(Whole(0), call.thickness))
  => /\ InUnit(call.result)
     /\ Less(Whole(0), adaptiveThickness(call.thickness, call.elevationGradient))
     /\ Leq(Mul(Rat(1, 100), call.thickness),
            adaptiveThickness(call.thickness, call.elevationGradient))

(* C14 witness: flat terrain, gradient exactly 0, the thickness at its     *)
(* floor, and a pixel that is lit.                                         *)
C14_Witness ==
  /\ call.fn = "renderContour"
  /\ call.elevationGradient = Whole(0)
  /\ adaptiveThickness(call.thickness, call.elevationGradient)
       = Mul(Rat(1, 100), call.thickness)
  /\ Less(Whole(0), call.result)

(* The width of the viewport in terrain space: from the left edge of the   *)
(* first pixel to the right edge of the last, for a window of size win.    *)
HorizontalExtent(win, sc) ==
  LET u == UniformsAfterResize(win, sc)
      at(x) == terrainPos(<<x, Rat(1, 2)>>, u.resolution, Rat(u.terrainScale, 10))
  IN  Sub(at(Whole(win.innerWidth))[1], at(Whole(0))[1])

(* The terrain step from the first pixel of a window of size win to the    *)
(* pixel on its right.                                                     *)
HorizontalStep(win, sc) ==
  LET u == UniformsAfterResize(win, sc)
      at(i) == terrainPos(FragCoord(i, 0), u.resolution, Rat(u.terrainScale, 10))
  IN  Sub(at(1)[1], at(0)[1])

(* C15: resizing the viewport does not distort the terrain.  For every     *)
(* width W and height H the terrain step between horizontally adjacent    *)
(* pixels equals the step between vertically adjacent pixels, which is    *)
(* terrainScale / H; the centre of the viewport maps to the terrain       *)
(* origin (a pixel whose centre lies there maps to the origin; when W or  *)
(* H is even there is none, and the pixels around it are half a step      *)
(* away); the horizontal extent is terrainScale * W / H, so that a window *)
(* twice as wide (800x600 to 1600x600) shows twice the extent at the same *)
(* step.                                                                   *)
C15_ResizeKeepsAspect ==
  call.fn = "main" =>
    LET W == call.window.innerWidth
        H == call.window.innerHeight
        scale == Rat(call.terrainScale, 10)
        step == Div(scale, Whole(H))
        u == UniformsAfterResize(call.window, call.terrainScale)
        wider == [innerWidth |-> 2 * W, innerHeight |-> H]
        origin == <<Whole(0), Whole(0)>>
    IN  /\ Sub(call.resultRight[1], call.result[1]) = step
        /\ call.resultRight[2] = call.result[2]
        /\ Sub(call.resultUp[2], call.result[2]) = step
        /\ call.resultUp[1] = call.result[1]
        /\ terrainPos(<<Rat(W, 2), Rat(H, 2)>>, u.resolution, scale) = origin
        /\ FragCoord(call.pixel[1], call.pixel[2]) = <<Rat(W, 2), Rat(H, 2)>>
             => call.result = origin
        /\ HorizontalExtent(call.window, call.terrainScale)
             = Div(Mul(scale, Whole(W)), Whole(H))
        /\ HorizontalExtent(wider, call.terrainScale)
             = Mul(Whole(2), HorizontalExtent(call.window, call.terrainScale))
        /\ HorizontalStep(wider, call.terrainScale) = step

(* C15 witness: a pixel away from the centre of an 800x600 window, whose   *)
(* double, 1600x600, is a window of the model too.                         *)
C15_Witness ==
  /\ call.fn = "main"
  /\ call.window = [innerWidth |-> 800, innerHeight |-> 600]
  /\ [innerWidth |-> 1600, innerHeight |-> 600] \in ViewportSizes
  /\ call.pixel = <<798, 0>>
  /\ call.result[1] # Whole(0) /\ call.result[2] # Whole(0)

(* What holds of the page glue in every state: at most one #highlight, one *)
(* exactly when wide_initialised; at most one timer pending, none once the *)
(* page is narrow; the one-time setup run once as soon as init has run.    *)
GlueConsistent ==
  /\ highlights <= 1
  /\ (highlights = 1) <=> wide_initialised
  /\ Cardinality(timers) <= 1
  /\ (narrow \/ ~wide_initialised) => timers = {}
  /\ setups = (IF initialised THEN 1 ELSE 0)
  /\ ready => initialised

(* C16: after any sequence of resize events crossing the 750px threshold   *)
(* in either direction, at most one #highlight exists and it exists        *)
(* exactly when wide_initialised is true, at most one delayed timer is     *)
(* pending, the timer never fires while the page is narrow (it is cleared  *)
(* on every wide-to-narrow transition), and the one-time setup guarded by  *)
(* window.initialised runs exactly once.                                   *)
C16_GlueStaysConsistent ==
  [][/\ GlueConsistent
     /\ GlueConsistent'
     /\ fired' # fired => (~narrow /\ wide_initialised)
     /\ (wide_initialised /\ ~wide_initialised') => timers' = {}
     /\ setups' >= setups]_vars

(* C16 witness: the page is narrow again after the threshold was crossed   *)
(* several times: two timers were set, one fired while wide and one was    *)
(* cleared, and no #highlight is left.                                     *)
C16_Witness ==
  /\ ready /\ narrow
  /\ pageWidth < Threshold
  /\ timersSet = 2
  /\ fired = 1
  /\ timers = {}
  /\ highlights = 0
  /\ setups = 1
====
